---------------------------- MODULE Spec2Model ----------------------------
(***************************************************************************)
(* Model of the derived-metrics calculator of the farm-mapping view        *)
(* (deriveMetrics in FarmMapping.jsx).                                     *)
(*                                                                         *)
(* Numbers.  A JavaScript number x is represented by the integer           *)
(* x * Scale (three decimals).  All products in deriveMetrics multiply by  *)
(* literal factors, so the arithmetic is linear and exact on this grid.    *)
(* null / undefined is the value NULL, which lies outside every number     *)
(* the inputs use.  The explored input values are chosen so that no        *)
(* rounding tie of the model rests on a decimal the doubles of the code    *)
(* cannot hold exactly (ties arise only from the humidity rule's halves).  *)
(***************************************************************************)
EXTENDS Integers, Sequences, FiniteSets, TLC

Scale == 1000

\* the integer literal n
K(n) == n * Scale

\* the decimal literal n/d (0.3 is Frac(3, 10))
Frac(n, d) == (n * Scale) \div d

NULL == 0 - (Scale * Scale * Scale)

\* a ?? d
Coalesce(a, d) == IF a = NULL THEN d ELSE a

\* ToNumber(a) of a relational or arithmetic operand: null converts to 0
ToNumber(a) == IF a = NULL THEN 0 ELSE a

\* a || 0 inside the precipitation reducer: null and 0 are both falsy
OrZero(a) == IF a = NULL THEN 0 ELSE a

\* Math.round: nearest integer, ties towards +Infinity
MathRound(x) == ((x + (Scale \div 2)) \div Scale) * Scale

\* Math.round(n / d) for a positive integer literal d, without an
\* intermediate quotient: floor(n/d + 1/2) = floor((2n + d) / 2d)
MathRoundDiv(n, d) == (((2 * n) + (d * Scale)) \div (2 * d * Scale)) * Scale

\* x * (n/d) for a decimal literal n/d
MulFrac(x, n, d) == (x * n) \div d

MathMax(a, b) == IF a >= b THEN a ELSE b

MathMin(a, b) == IF a <= b THEN a ELSE b

\* Math.max(lo, Math.min(hi, x))
Clamp(lo, hi, x) == MathMax(lo, MathMin(hi, x))

IsInteger(x) == x % Scale = 0

(***************************************************************************)
(* Arrays of the API response.  A field that should hold an array is       *)
(* either absent or an array of numbers and nulls.                         *)
(***************************************************************************)
Arr(s) == [isArray |-> TRUE, items |-> s]

NoArr == [isArray |-> FALSE, items |-> <<>>]

\* a?.[i] with a 0-based index: undefined when a is absent or i is out of range
At(a, i) == IF a.isArray /\ (i + 1) \in DOMAIN a.items THEN a.items[i + 1] ELSE NULL

\* Array(n).fill(v)
Fill(n, v) == [i \in 1..n |-> v]

RECURSIVE SumOrZero(_)
\* (a || []).reduce((acc, b) => acc + (b || 0), 0) over the items of a
SumOrZero(s) == IF s = <<>> THEN 0 ELSE OrZero(Head(s)) + SumOrZero(Tail(s))

(***************************************************************************)
(* Health score                                                            *)
(***************************************************************************)
\* mutant: the above-38 rule also takes exactly 38
tempPenalty_InclusiveAt38(temp) ==
    IF temp < K(10) THEN K(30)
    ELSE IF temp < K(18) THEN (K(18) - temp) * 2
    ELSE IF temp >= K(38) THEN (temp - K(38)) * 4
    ELSE IF temp > K(32) THEN (temp - K(32)) * 2
    ELSE 0

\* mutant: the above-38 rule counts from 32, like the rule below it
tempPenalty_From32(temp) ==
    IF temp < K(10) THEN K(30)
    ELSE IF temp < K(18) THEN (K(18) - temp) * 2
    ELSE IF temp > K(38) THEN (temp - K(32)) * 4
    ELSE IF temp > K(32) THEN (temp - K(32)) * 2
    ELSE 0

tempPenalty(temp) ==
    IF temp < K(10) THEN K(30)
    ELSE IF temp < K(18) THEN (K(18) - temp) * 2
    ELSE IF temp > K(38) THEN (temp - K(38)) * 4
    ELSE IF temp > K(32) THEN (temp - K(32)) * 2
    ELSE 0

humidityPenalty(humidity) ==
    IF humidity < K(30) THEN K(15)
    ELSE IF humidity < K(50) THEN MulFrac(K(50) - humidity, 5, 10)
    ELSE IF humidity > K(90) THEN K(10)
    ELSE 0

vpdPenalty(vpd) ==
    IF vpd > Frac(35, 10) THEN K(20)
    ELSE IF vpd > K(2) THEN (vpd - K(2)) * 8
    ELSE 0

uvPenalty(uvMax) ==
    IF uvMax > K(9) THEN K(10)
    ELSE IF uvMax > K(7) THEN K(5)
    ELSE 0

\* the signed soil-moisture term: +5 bonus, or -15
soilMoistureTerm(soilM) ==
    IF soilM > Frac(3, 10) THEN K(5)
    ELSE IF soilM < Frac(1, 10) THEN 0 - K(15)
    ELSE 0

\* mutant: the running score is capped at 100 after the soil-moisture bonus,
\* before the penalties are taken off
healthAccumulator_BonusCapped(temp, humidity, vpd, uvMax, soilM) ==
    MathMin(K(100), K(100) + soilMoistureTerm(soilM))
        - tempPenalty(temp) - humidityPenalty(humidity) - vpdPenalty(vpd) - uvPenalty(uvMax)

\* the accumulator just before the final clamp
healthAccumulator(temp, humidity, vpd, uvMax, soilM) ==
    K(100) - tempPenalty(temp) - humidityPenalty(humidity) - vpdPenalty(vpd)
           - uvPenalty(uvMax) + soilMoistureTerm(soilM)

\* mutant: the final clamp is missing
healthScore_Unclamped(temp, humidity, vpd, uvMax, soilM) ==
    MathRound(healthAccumulator(temp, humidity, vpd, uvMax, soilM))

healthScore(temp, humidity, vpd, uvMax, soilM) ==
    Clamp(0, K(100), MathRound(healthAccumulator(temp, humidity, vpd, uvMax, soilM)))

\* mutant: the HEALTHY threshold is strict
stressLevelOf_Strict75(health) ==
    IF health > K(75) THEN "HEALTHY"
    ELSE IF health >= K(50) THEN "MODERATE"
    ELSE IF health >= K(30) THEN "HIGH"
    ELSE "CRITICAL"

stressLevelOf(health) ==
    IF health >= K(75) THEN "HEALTHY"
    ELSE IF health >= K(50) THEN "MODERATE"
    ELSE IF health >= K(30) THEN "HIGH"
    ELSE "CRITICAL"

stressColorOf(health) ==
    IF health >= K(75) THEN "#00ff88"
    ELSE IF health >= K(50) THEN "#ffd60a"
    ELSE IF health >= K(30) THEN "#ff6b2b"
    ELSE "#ff3864"

(***************************************************************************)
(* Number formatting.  x.toFixed(f) is modelled by the value its digits    *)
(* denote: x rounded to f decimals, ties away from zero.                   *)
(***************************************************************************)
Pow10(f) == IF f = 0 THEN 1 ELSE IF f = 1 THEN 10 ELSE IF f = 2 THEN 100 ELSE 1000

ToFixedAbs(x, f) ==
    LET unit == Scale \div Pow10(f)
    IN  (((2 * x) + unit) \div (2 * unit)) * unit

ToFixed(x, f) == IF x < 0 THEN 0 - ToFixedAbs(0 - x, f) ELSE ToFixedAbs(x, f)

\* x?.toFixed(f) ?? alt
ToFixedOr(x, f, alt) == IF x = NULL THEN alt ELSE ToFixed(x, f)

\* parseFloat of a string produced by toFixed
ParseFloat(v) == v

(***************************************************************************)
(* Irrigation recommendation                                               *)
(***************************************************************************)
precipWeekOf(daily) ==
    SumOrZero(IF daily.precipitation_sum.isArray THEN daily.precipitation_sum.items ELSE <<>>)

deficitOf(et0, precipWeek) == MathMax(0, (et0 * 7) - precipWeek)

\* mutant: the soil-moisture thresholds are inclusive
irrigUrgencyOf_Inclusive(soilM, deficit) ==
    IF soilM <= Frac(1, 10) \/ deficit > K(30) THEN "URGENT"
    ELSE IF soilM <= Frac(2, 10) \/ deficit > K(15) THEN "SOON"
    ELSE "OK"

irrigUrgencyOf(soilM, deficit) ==
    IF soilM < Frac(1, 10) \/ deficit > K(30) THEN "URGENT"
    ELSE IF soilM < Frac(2, 10) \/ deficit > K(15) THEN "SOON"
    ELSE "OK"

\* mutant: the URGENT amount uses the SOON margin of 8
irrigRecOf_UrgentMargin8(soilM, deficit, precipWeek) ==
    IF soilM < Frac(1, 10) \/ deficit > K(30)
    THEN <<"Apply ", MathRound(deficit + K(8)), " mm within 24h. Soil critically dry.">>
    ELSE IF soilM < Frac(2, 10) \/ deficit > K(15)
    THEN <<"Schedule ", MathRound(deficit + K(8)), " mm irrigation within 3 days.">>
    ELSE <<"Sufficient moisture. Next irrigation in ~",
           MathRoundDiv((K(7) * 3) - precipWeek, 3), " days.">>

\* the template string, as its literal parts around the interpolated number
irrigRecOf(soilM, deficit, precipWeek) ==
    IF soilM < Frac(1, 10) \/ deficit > K(30)
    THEN <<"Apply ", MathRound(deficit + K(15)), " mm within 24h. Soil critically dry.">>
    ELSE IF soilM < Frac(2, 10) \/ deficit > K(15)
    THEN <<"Schedule ", MathRound(deficit + K(8)), " mm irrigation within 3 days.">>
    ELSE <<"Sufficient moisture. Next irrigation in ~",
           MathRoundDiv((K(7) * 3) - precipWeek, 3), " days.">>

(***************************************************************************)
(* Nutrient scores and alerts                                              *)
(***************************************************************************)
nScoreOf(soilT, soilM, vpd, temp) ==
    MathRound(Clamp(0, K(100),
        K(100) - (IF soilT > K(30) THEN K(20) ELSE 0)
               - (IF soilM < Frac(15, 100) THEN K(30) ELSE 0)
               - (IF vpd > K(2) THEN K(15) ELSE 0)
               - (IF temp > K(35) THEN K(10) ELSE 0)))

pScoreOf(soilT, humidity, precip) ==
    MathRound(Clamp(0, K(100),
        K(100) - (IF soilT < K(10) THEN K(25) ELSE 0)
               - (IF humidity < K(40) THEN K(20) ELSE 0)
               - (IF precip > K(10) THEN K(10) ELSE 0)))

kScoreOf(vpd, humidity, soilM) ==
    MathRound(Clamp(0, K(100),
        K(100) - (IF vpd > Frac(25, 10) THEN K(25) ELSE 0)
               - (IF humidity > K(85) THEN K(15) ELSE 0)
               - (IF soilM > Frac(4, 10) THEN K(10) ELSE 0)))

AdequateMsg == <<"Nutrient levels appear adequate for current conditions.">>

UreaMsg(nScore) == <<"Apply 30-60 kg/ha urea (N deficit: ", K(100) - nScore, "%)">>

DapMsg(pScore) == <<"Apply DAP/SSP (P deficit: ", K(100) - pScore, "%)">>

MopMsg(kScore) == <<"Apply MOP/SOP (K deficit: ", K(100) - kScore, "%)">>

\* mutant: a score of exactly 60 raises an advisory too
nutrientAlertsOf_Inclusive60(nScore, pScore, kScore) ==
    LET pushed == (IF nScore <= K(60) THEN <<UreaMsg(nScore)>> ELSE <<>>)
               \o (IF pScore <= K(60) THEN <<DapMsg(pScore)>> ELSE <<>>)
               \o (IF kScore <= K(60) THEN <<MopMsg(kScore)>> ELSE <<>>)
    IN  IF Len(pushed) = 0 THEN <<AdequateMsg>> ELSE pushed

nutrientAlertsOf(nScore, pScore, kScore) ==
    LET pushed == (IF nScore < K(60) THEN <<UreaMsg(nScore)>> ELSE <<>>)
               \o (IF pScore < K(60) THEN <<DapMsg(pScore)>> ELSE <<>>)
               \o (IF kScore < K(60) THEN <<MopMsg(kScore)>> ELSE <<>>)
    IN  IF Len(pushed) = 0 THEN <<AdequateMsg>> ELSE pushed

(***************************************************************************)
(* Temperature alert                                                       *)
(***************************************************************************)
\* mutant: the cold checks come before the heat checks
tempAlertLevelOf_ColdFirst(tMax, tMin) ==
    IF tMin < K(4) THEN "HIGH"
    ELSE IF tMin < K(10) THEN "MODERATE"
    ELSE IF tMax > K(42) THEN "CRITICAL"
    ELSE IF tMax > K(36) THEN "HIGH"
    ELSE "OK"

tempAlertLevelOf(tMax, tMin) ==
    IF tMax > K(42) THEN "CRITICAL"
    ELSE IF tMax > K(36) THEN "HIGH"
    ELSE IF tMin < K(4) THEN "HIGH"
    ELSE IF tMin < K(10) THEN "MODERATE"
    ELSE "OK"

\* mutant: the frost check comes before the heat-stress check
tempAlertOf_FrostBeforeHeat(tMax, tMin) ==
    IF tMax > K(42) THEN <<"Severe heat (", tMax, ") - risk of crop wilting & protein denaturation.">>
    ELSE IF tMin < K(4) THEN <<"Near-frost risk (", tMin, " night) - protect vulnerable seedlings.">>
    ELSE IF tMax > K(36) THEN <<"Heat stress (", tMax, ") - apply foliar cooling; avoid midday irrigation.">>
    ELSE IF tMin < K(10) THEN <<"Cool nights (", tMin, ") - may slow growth in tropical crops.">>
    ELSE <<"Temperature range ", tMin, " - ", tMax, " is within optimal crop bounds.">>

tempAlertOf(tMax, tMin) ==
    IF tMax > K(42) THEN <<"Severe heat (", tMax, ") - risk of crop wilting & protein denaturation.">>
    ELSE IF tMax > K(36) THEN <<"Heat stress (", tMax, ") - apply foliar cooling; avoid midday irrigation.">>
    ELSE IF tMin < K(4) THEN <<"Near-frost risk (", tMin, " night) - protect vulnerable seedlings.">>
    ELSE IF tMin < K(10) THEN <<"Cool nights (", tMin, ") - may slow growth in tropical crops.">>
    ELSE <<"Temperature range ", tMin, " - ", tMax, " is within optimal crop bounds.">>

(***************************************************************************)
(* 7-day health trend                                                      *)
(***************************************************************************)
\* the arithmetic and rounding of one day's score.  tmax is the array
\* element itself (it has no ?? default); sm, uv and pr are already defaulted.
trendDayScore(tmax, sm, uv, pr) ==
    LET h0 == K(100)
        h1 == IF ToNumber(tmax) > K(38) THEN h0 - ((ToNumber(tmax) - K(38)) * 4) ELSE h0
        h2 == IF ToNumber(tmax) < K(18) THEN h1 - ((K(18) - ToNumber(tmax)) * 2) ELSE h1
        h3 == IF sm < Frac(1, 10) THEN h2 - K(15) ELSE h2
        h4 == IF uv > K(9) THEN h3 - K(10) ELSE h3
        h5 == IF pr > K(20) THEN h4 - K(5) ELSE h4
    IN  Clamp(0, K(100), MathRound(h5))

\* the array the trend maps over
trendSource(daily, temp) ==
    IF daily.temperature_2m_max.isArray THEN daily.temperature_2m_max.items ELSE Fill(7, temp)

\* the callback of .map for the element at 0-based index i
trendEntry(daily, tmax, i, soilM, uvMax) ==
    LET sm == Coalesce(At(daily.soil_moisture_0_to_10cm_mean, i), soilM)
        pr == Coalesce(At(daily.precipitation_sum, i), 0)
        uv == Coalesce(At(daily.uv_index_max, i), uvMax)
    IN  [day |-> i, h |-> trendDayScore(tmax, sm, uv, pr),
         tmax |-> ToFixedOr(tmax, 1, "-"), pr |-> ToFixedOr(pr, 1, "0")]

trendOf(daily, temp, soilM, uvMax) ==
    LET src == trendSource(daily, temp)
    IN  [j \in 1..Len(src) |-> trendEntry(daily, src[j], j - 1, soilM, uvMax)]

(***************************************************************************)
(* Soil health                                                             *)
(***************************************************************************)
soilMoisturePctOf(soilM) == ParseFloat(ToFixed(soilM * 100, 1))

mScoreOf(pct) ==
    IF pct < K(5) THEN K(10)
    ELSE IF pct < K(15) THEN K(40)
    ELSE IF pct < K(20) THEN K(70)
    ELSE IF pct > K(60) THEN K(50)
    ELSE IF pct > K(45) THEN K(75)
    ELSE K(100)

stScoreOf(soilT) ==
    IF soilT < K(5) THEN K(20)
    ELSE IF soilT < K(10) THEN K(55)
    ELSE IF soilT < K(15) THEN K(80)
    ELSE IF soilT > K(35) THEN K(40)
    ELSE IF soilT > K(28) THEN K(75)
    ELSE K(100)

\* mutant: the floor of 20 is missing
aerationScoreOf_NoFloor(pct) ==
    IF pct > K(50) THEN K(100) - ((pct - K(50)) * 3)
    ELSE IF pct < K(10) THEN K(40)
    ELSE K(90)

aerationScoreOf(pct) ==
    IF pct > K(50) THEN MathMax(K(20), K(100) - ((pct - K(50)) * 3))
    ELSE IF pct < K(10) THEN K(40)
    ELSE K(90)

organicScoreOf(pct, soilT, humidity) ==
    MathRound(Clamp(K(20), K(100),
        K(50) + (IF pct > K(20) /\ pct < K(45) THEN K(25) ELSE 0)
              + (IF soilT > K(12) /\ soilT < K(30) THEN K(20) ELSE 0)
              + (IF humidity > K(55) THEN K(5) ELSE 0 - K(10))))

microbialScoreOf(pct, soilT, vpd) ==
    MathRound(Clamp(K(10), K(100),
        K(100) - (IF soilT < K(10) THEN K(40) ELSE IF soilT > K(35) THEN K(30) ELSE 0)
               - (IF pct < K(15) THEN K(35) ELSE IF pct > K(55) THEN K(20) ELSE 0)
               - (IF vpd > K(3) THEN K(15) ELSE 0)))

structureScoreOf(mScore, aerationScore, stScore) ==
    MathRound(Clamp(K(20), K(100),
        MulFrac(mScore, 4, 10) + MulFrac(aerationScore, 3, 10) + MulFrac(stScore, 3, 10)))

soilHealthOf(mScore, stScore, aerationScore, organicScore, microbialScore, structureScore) ==
    MathRoundDiv(mScore + stScore + aerationScore + organicScore + microbialScore
                 + structureScore, 6)

\* mutant: the status bands exclude their lower ends
soilStatusOf_StrictBands(soilHealth) ==
    IF soilHealth > K(80) THEN "EXCELLENT"
    ELSE IF soilHealth > K(60) THEN "GOOD"
    ELSE IF soilHealth > K(40) THEN "FAIR"
    ELSE "POOR"

soilStatusOf(soilHealth) ==
    IF soilHealth >= K(80) THEN "EXCELLENT"
    ELSE IF soilHealth >= K(60) THEN "GOOD"
    ELSE IF soilHealth >= K(40) THEN "FAIR"
    ELSE "POOR"

soilStatusColorOf(soilHealth) ==
    IF soilHealth >= K(80) THEN "#00ff88"
    ELSE IF soilHealth >= K(60) THEN "#39ff14"
    ELSE IF soilHealth >= K(40) THEN "#ffd60a"
    ELSE "#ff3864"

\* mutant: the organic-matter check is missing
soilIssuesOf_NoOrganicCheck(pct, soilT, mScore, stScore, aerationScore, microbialScore, organicScore) ==
    LET pushed ==
           (IF mScore < K(60)
            THEN <<IF pct < K(20) THEN "Low soil moisture - risk of drought stress"
                   ELSE "Excess moisture - risk of root rot & anaerobic conditions">>
            ELSE <<>>)
        \o (IF stScore < K(60)
            THEN <<IF soilT < K(12) THEN "Cold soil - slows nutrient uptake & microbial activity"
                   ELSE "Overly warm soil - accelerated evaporation & OM loss">>
            ELSE <<>>)
        \o (IF aerationScore < K(60)
            THEN <<"Poor aeration - consider drainage or tillage improvements">> ELSE <<>>)
        \o (IF microbialScore < K(60)
            THEN <<"Low microbial activity - apply organic amendments or compost">> ELSE <<>>)
    IN  IF Len(pushed) = 0 THEN <<"Soil conditions are healthy and well-balanced">> ELSE pushed

soilIssuesOf(pct, soilT, mScore, stScore, aerationScore, microbialScore, organicScore) ==
    LET pushed ==
           (IF mScore < K(60)
            THEN <<IF pct < K(20) THEN "Low soil moisture - risk of drought stress"
                   ELSE "Excess moisture - risk of root rot & anaerobic conditions">>
            ELSE <<>>)
        \o (IF stScore < K(60)
            THEN <<IF soilT < K(12) THEN "Cold soil - slows nutrient uptake & microbial activity"
                   ELSE "Overly warm soil - accelerated evaporation & OM loss">>
            ELSE <<>>)
        \o (IF aerationScore < K(60)
            THEN <<"Poor aeration - consider drainage or tillage improvements">> ELSE <<>>)
        \o (IF microbialScore < K(60)
            THEN <<"Low microbial activity - apply organic amendments or compost">> ELSE <<>>)
        \o (IF organicScore < K(60)
            THEN <<"Low organic matter - add crop residues or green manure">> ELSE <<>>)
    IN  IF Len(pushed) = 0 THEN <<"Soil conditions are healthy and well-balanced">> ELSE pushed

(***************************************************************************)
(* deriveMetrics(raw, cropType).  raw.wx is the weather response, with     *)
(* its current, hourly and daily parts; of an hourly array only element 0  *)
(* is read, so an hourly field holds hourly.x?.[0].                        *)
(***************************************************************************)
\* raw.wx?.current || {}, raw.wx?.daily || {}, raw.wx?.hourly || {} of a
\* response that has none of them
NoCurrent == [temperature_2m |-> NULL, relative_humidity_2m |-> NULL, precipitation |-> NULL]

NoHourly ==
    [soil_temperature_0cm |-> NULL, soil_moisture_0_to_1cm |-> NULL,
     vapour_pressure_deficit |-> NULL]

NoDaily ==
    [temperature_2m_max |-> NoArr, temperature_2m_min |-> NoArr, precipitation_sum |-> NoArr,
     et0_fao_evapotranspiration |-> NoArr, uv_index_max |-> NoArr,
     soil_moisture_0_to_10cm_mean |-> NoArr]

\* the reads and defaults at the head of deriveMetrics
\* mutant: the temperature default is derived from the humidity reading
tempOf_FromHumidity(cur) ==
    Coalesce(cur.temperature_2m, IF cur.relative_humidity_2m = NULL THEN K(25) ELSE K(20))

tempOf(cur) == Coalesce(cur.temperature_2m, K(25))

humidityOf(cur) == Coalesce(cur.relative_humidity_2m, K(50))

precipOf(cur) == Coalesce(cur.precipitation, 0)

soilTOf(hourly, temp) == Coalesce(hourly.soil_temperature_0cm, temp - K(2))

soilMOf(hourly) == Coalesce(hourly.soil_moisture_0_to_1cm, Frac(25, 100))

vpdOf(hourly) == Coalesce(hourly.vapour_pressure_deficit, K(1))

uvMaxOf(daily) == Coalesce(At(daily.uv_index_max, 0), K(5))

et0Of(daily) == Coalesce(At(daily.et0_fao_evapotranspiration, 0), K(4))

tMaxOf(daily, temp) == Coalesce(At(daily.temperature_2m_max, 0), temp)

tMinOf(daily, temp) == Coalesce(At(daily.temperature_2m_min, 0), temp - K(8))

\* whether evaluating raw.wx throws (raw is null or undefined)
derefThrows(r) == ~r.defined

deriveMetrics(r) ==
    LET cur == r.current
        daily == r.daily
        hourly == r.hourly
        temp == tempOf(cur)
        humidity == humidityOf(cur)
        precip == precipOf(cur)
        soilT == soilTOf(hourly, temp)
        soilM == soilMOf(hourly)
        vpd == vpdOf(hourly)
        uvMax == uvMaxOf(daily)
        health == healthScore(temp, humidity, vpd, uvMax, soilM)
        et0 == et0Of(daily)
        precipWeek == precipWeekOf(daily)
        deficit == deficitOf(et0, precipWeek)
        nScore == nScoreOf(soilT, soilM, vpd, temp)
        pScore == pScoreOf(soilT, humidity, precip)
        kScore == kScoreOf(vpd, humidity, soilM)
        tMax == tMaxOf(daily, temp)
        tMin == tMinOf(daily, temp)
        pct == soilMoisturePctOf(soilM)
        mScore == mScoreOf(pct)
        stScore == stScoreOf(soilT)
        aerationScore == aerationScoreOf(pct)
        organicScore == organicScoreOf(pct, soilT, humidity)
        microbialScore == microbialScoreOf(pct, soilT, vpd)
        structureScore == structureScoreOf(mScore, aerationScore, stScore)
        soilHealth == soilHealthOf(mScore, stScore, aerationScore, organicScore,
                                   microbialScore, structureScore)
    IN  [health |-> health, stressPct |-> K(100) - health,
         stressLevel |-> stressLevelOf(health), stressColor |-> stressColorOf(health),
         temp |-> temp, humidity |-> humidity, precip |-> precip, soilT |-> soilT,
         soilM |-> ToFixed(pct, 1), vpd |-> ToFixedOr(vpd, 2, NULL), uvMax |-> uvMax,
         tMax |-> tMax, tMin |-> tMin,
         irrigRec |-> irrigRecOf(soilM, deficit, precipWeek),
         irrigUrgency |-> irrigUrgencyOf(soilM, deficit),
         nScore |-> nScore, pScore |-> pScore, kScore |-> kScore,
         nutrientAlerts |-> nutrientAlertsOf(nScore, pScore, kScore),
         tempAlert |-> tempAlertOf(tMax, tMin),
         tempAlertLevel |-> tempAlertLevelOf(tMax, tMin),
         trend |-> trendOf(daily, temp, soilM, uvMax),
         et0 |-> ToFixedOr(et0, 1, NULL), deficit |-> ToFixed(deficit, 1),
         soilHealth |-> soilHealth, soilStatus |-> soilStatusOf(soilHealth),
         soilStatusColor |-> soilStatusColorOf(soilHealth),
         soilIssues |-> soilIssuesOf(pct, soilT, mScore, stScore, aerationScore,
                                     microbialScore, organicScore),
         mScore |-> mScore, stScore |-> stScore, aerationScore |-> aerationScore,
         organicScore |-> organicScore, microbialScore |-> microbialScore,
         structureScore |-> structureScore]

(***************************************************************************)
(* The observations the model explores.  Each family varies the fields one *)
(* group of rules reads and leaves the others absent; the values sit on    *)
(* and around the thresholds of the rules.                                 *)
(***************************************************************************)
\* upper end of the whole-degree air temperatures explored
MaxTemp == 52

\* longest forecast array explored (the API is asked for 7 days)
MaxDays == 8

\* a response with no field at all: every read takes its default
EmptyObs == [defined |-> TRUE, current |-> NoCurrent, hourly |-> NoHourly, daily |-> NoDaily]

\* raw itself is undefined
UndefinedObs == [defined |-> FALSE, current |-> NoCurrent, hourly |-> NoHourly, daily |-> NoDaily]

TempValues ==
    {NULL, K(5), K(10), K(14), Frac(175, 10), K(18), K(33), Frac(385, 10), Frac(402, 10), K(70)}
        \cup {K(t) : t \in 36..MaxTemp}

HumidityValues == {NULL, K(25), K(30), K(48), K(49), K(50), K(90), K(91)}

VpdValues == {NULL, K(1), K(2), Frac(225, 100), Frac(35, 10), Frac(375, 100)}

UvArrays == {NoArr} \cup {Arr(Fill(7, u)) : u \in {K(5), K(8), Frac(95, 10)}}

SoilMValues == {NULL, Frac(5, 100), Frac(1, 10), Frac(25, 100), Frac(3, 10), Frac(35, 100)}

HealthObs(t, h, v, sm, uv) ==
    [EmptyObs EXCEPT
        !.current.temperature_2m = t, !.current.relative_humidity_2m = h,
        !.hourly.vapour_pressure_deficit = v, !.hourly.soil_moisture_0_to_1cm = sm,
        !.daily.uv_index_max = uv]

SoilTValues == {NULL, K(3), K(7), Frac(95, 10), K(12), K(20), K(29), K(31), K(36)}

SoilPctValues ==
    {NULL, Frac(3, 100), Frac(8, 100), Frac(12, 100), Frac(18, 100), Frac(3, 10),
     Frac(42, 100), Frac(48, 100), Frac(52, 100), Frac(58, 100), Frac(65, 100), Frac(9, 10)}

SoilObs(t, h, p, st, v, sm) ==
    [EmptyObs EXCEPT
        !.current.temperature_2m = t, !.current.relative_humidity_2m = h,
        !.current.precipitation = p, !.hourly.soil_temperature_0cm = st,
        !.hourly.vapour_pressure_deficit = v, !.hourly.soil_moisture_0_to_1cm = sm]

\* the array <<a, b, b, ...>> of length n
ArrayOf(n, a, b) == Arr([i \in 1..n |-> IF i = 1 THEN a ELSE b])

Et0Arrays ==
    {NoArr} \cup {Arr(Fill(7, x)) : x \in {NULL, 0, K(2), Frac(22, 10), Frac(45, 10), K(6), K(8)}}

IrrigationObs(sm, e, ps) ==
    [EmptyObs EXCEPT
        !.hourly.soil_moisture_0_to_1cm = sm, !.daily.et0_fao_evapotranspiration = e,
        !.daily.precipitation_sum = ps]

TMinArrays == {NoArr} \cup {Arr(<<x>> \o Fill(6, K(15))) : x \in {NULL, K(3), K(9), K(15)}}

ForecastObs(t, mx, mn) ==
    [EmptyObs EXCEPT
        !.current.temperature_2m = t, !.daily.temperature_2m_max = mx,
        !.daily.temperature_2m_min = mn]

(***************************************************************************)
(* One call deriveMetrics(raw, cropType): raw is the argument, m the       *)
(* returned metrics, pc the position of the call.                          *)
(***************************************************************************)
(***************************************************************************)
(* The analysis routes of the API server (routes/analysis.js): db is the   *)
(* Analysis collection in insertion order, res the last response of        *)
(* GET /api/results.                                                       *)
(***************************************************************************)
\* .limit(50) of the list query
ResultsLimit == 50

\* most analyses stored in the explored runs
MaxStored == 51

\* the document saved for the n-th analysis; createdAt rises with n
AnalysisDoc(n) ==
    [id |-> n, createdAt |-> n, fileName |-> "field.tif", rgbImage |-> "rgb-base64",
     ndviImage |-> "ndvi-base64", overlayImage |-> "overlay-base64",
     stressPercentage |-> K(42), alertLevel |-> "MONITOR"]

\* .sort({ createdAt: -1 }): newest first (createdAt rises along docs)
SortNewestFirst(docs) == [i \in 1..Len(docs) |-> docs[Len(docs) + 1 - i]]

\* .select('-rgbImage -ndviImage -overlayImage')
SelectWithoutImages(doc) ==
    [f \in (DOMAIN doc) \ {"rgbImage", "ndviImage", "overlayImage"} |-> doc[f]]

\* .limit(n)
Limit(docs, n) == IF Len(docs) <= n THEN docs ELSE SubSeq(docs, 1, n)

\* Analysis.find().sort({ createdAt: -1 }).select(...).limit(50)
findResults(docs) ==
    LET sorted == SortNewestFirst(docs)
        picked == Limit(sorted, ResultsLimit)
    IN  [i \in 1..Len(picked) |-> SelectWithoutImages(picked[i])]

NoResponse == [status |-> 0, success |-> FALSE, data |-> <<>>]

(***************************************************************************)
(* The FarmMapping view (FarmMapping.jsx): the React state of the          *)
(* component, the polygon layer on the map, the runAnalysis calls started  *)
(* so far and the farm-create request of handleSave.                       *)
(***************************************************************************)
\* most polygon CREATED/EDITED events, hence runAnalysis calls, explored
MaxCalls == 2

Space == " "

\* a farm name is the sequence of its characters
FarmNames == {<<>>, <<Space>>, <<Space, "F", Space>>}

\* EMPTY_FORM, of which the view reads farmName only
EMPTY_FORM == [farmName |-> <<>>]

RECURSIVE TrimStart(_)
TrimStart(s) == IF s # <<>> /\ Head(s) = Space THEN TrimStart(Tail(s)) ELSE s

RECURSIVE TrimEnd(_)
TrimEnd(s) ==
    IF s # <<>> /\ s[Len(s)] = Space THEN TrimEnd(SubSeq(s, 1, Len(s) - 1)) ELSE s

\* String.prototype.trim
Trim(s) == TrimEnd(TrimStart(s))

\* geojson is null
NoGeojson == 0

\* setStatus(null)
NoStatus == [type |-> "", msg |-> ""]

BoundaryError ==
    [type |-> "error", msg |-> "Please draw your farm boundary on the map first."]

NameError == [type |-> "error", msg |-> "Farm name is required."]

ServerError == [type |-> "error", msg |-> "Server responded with an error"]

SavedStatus == [type |-> "success", msg |-> "Farm saved successfully!"]

\* metrics is null
NoMetrics == [gj |-> NoGeojson, health |-> NULL, stressLevel |-> "", stressColor |-> ""]

\* the metrics derived for polygon gj from the weather body wx: the polygon
\* they belong to and the fields of the result the view is asked about
MetricsFor(gj, wx) ==
    LET r == deriveMetrics(wx)
    IN  [gj |-> gj, health |-> r.health, stressLevel |-> r.stressLevel,
         stressColor |-> r.stressColor]

\* polygonRef.current is null
NoLayer == [layer |-> 0, color |-> ""]

\* shapeOptions of the draw control
DrawColor == "#00e5ff"

\* turf.area(gj) / 10000 with turf loaded: polygons differ in area
AreaOf(gj) == gj * Frac(12345, 1000)

\* the JSON bodies the weather API answers with; the last one is null
WeatherBodies == {EmptyObs, HealthObs(K(40), NULL, NULL, NULL, NoArr), UndefinedObs}

\* a runAnalysis call that has reached its first await
NewCall(gj) ==
    [gj |-> gj, wx |-> "pending", geo |-> "pending", pc |-> "fetch", derive |-> "not called"]

\* no farm-create request is in flight
NoSave == [pc |-> "idle", farmName |-> <<>>, geometry |-> NoGeojson, area_ha |-> NULL]

\* areaHa ? parseFloat(areaHa.toFixed(4)) : null; with three decimals kept
\* the fourth one is 0
PayloadArea(a) == IF a = NULL \/ a = 0 THEN NULL ELSE ParseFloat(ToFixed(a, 4))

(***************************************************************************)
(* POST /api/analyze-field (routes/analysis.js): now is Date.now(), disk   *)
(* the upload directory, posts the requests received so far.               *)
(***************************************************************************)
\* most upload requests explored
MaxPosts == 3

\* last value of the millisecond clock explored
MaxClock == 2

\* HTTP statuses an error response of the AI service carries
AiErrorStatuses == {422, 503}

\* the path multer gives the upload: `${Date.now()}-${file.originalname}`,
\* for one original name
UploadPath(t) == t

\* multer writes the upload of request r to path p, replacing a file there
WriteFile(files, p, r) == {f \in files : f.path # p} \cup {[path |-> p, upload |-> r]}

\* if (fs.existsSync(filePath)) fs.unlinkSync(filePath)
Unlink(files, p) == {f \in files : f.path # p}

\* a request as the handler sees it at its first statement
NewPost(hasFile, p) ==
    [hasFile |-> hasFile, path |-> p, pc |-> IF hasFile THEN "ai" ELSE "done",
     outcome |-> IF hasFile THEN "" ELSE "no file", aiStatus |-> 0,
     responses |-> IF hasFile THEN <<>> ELSE <<400>>]

\* the request has no file: req.file is undefined and there is no path
NoPath == 0 - 1

VARIABLES raw, m, pc, db, res,
          geojson, areaHa, form, status, saving, metrics, analyzing, polygonRef, calls,
          saveCall, now, disk, posts

viewVars ==
    <<geojson, areaHa, form, status, saving, metrics, analyzing, polygonRef, calls, saveCall>>

uploadVars == <<now, disk, posts>>

vars == <<raw, m, pc, db, res, viewVars, uploadVars>>

\* the view as it is mounted
ViewMounted ==
    /\ geojson = NoGeojson
    /\ areaHa = NULL
    /\ form = EMPTY_FORM
    /\ status = NoStatus
    /\ saving = FALSE
    /\ metrics = NoMetrics
    /\ analyzing = FALSE
    /\ polygonRef = NoLayer
    /\ calls = <<>>
    /\ saveCall = NoSave

\* the upload route before its first request
UploadIdle ==
    /\ now = 0
    /\ disk = {}
    /\ posts = <<>>

InitHealth ==
    \E t \in TempValues, h \in HumidityValues, v \in VpdValues, sm \in SoilMValues,
       uv \in UvArrays : raw = HealthObs(t, h, v, sm, uv)

InitSoil ==
    \E t \in {NULL, K(36)}, h \in {NULL, K(35), K(60), K(88)}, p \in {NULL, K(12)},
       st \in SoilTValues, v \in {NULL, Frac(225, 100), Frac(275, 100), Frac(325, 100)},
       sm \in SoilPctValues : raw = SoilObs(t, h, p, st, v, sm)

InitIrrigation ==
    \E sm \in {NULL, Frac(5, 100), Frac(1, 10), Frac(15, 100), Frac(2, 10)}, e \in Et0Arrays,
       n \in 0..MaxDays, a \in {NULL, Frac(5, 10), K(2), K(25)}, b \in {NULL, 0, Frac(15, 10)},
       absent \in BOOLEAN :
        raw = IrrigationObs(sm, e, IF absent THEN NoArr ELSE ArrayOf(n, a, b))

InitForecast ==
    \E t \in {NULL, K(12), K(44)}, n \in 0..MaxDays,
       a \in {NULL, K(3), K(17), K(25), K(37), K(39), K(43)}, b \in {NULL, K(25), K(40)},
       absent \in BOOLEAN, mn \in TMinArrays :
        raw = ForecastObs(t, IF absent THEN NoArr ELSE ArrayOf(n, a, b), mn)

Init ==
    /\ \/ raw = UndefinedObs
       \/ InitHealth
       \/ InitSoil
       \/ InitIrrigation
       \/ InitForecast
    /\ m = <<>>
    /\ pc = "call"
    /\ db = <<>>
    /\ res = NoResponse
    /\ ViewMounted
    /\ UploadIdle

\* mutant: the day-0 entry of the trend reuses the overall health score
Return_TrendDay0IsHealth ==
    /\ pc = "call"
    /\ ~derefThrows(raw)
    /\ m' = LET r == deriveMetrics(raw)
            IN  [r EXCEPT !.trend = [j \in DOMAIN r.trend |->
                                        IF j = 1 THEN [r.trend[j] EXCEPT !.h = r.health]
                                        ELSE r.trend[j]]]
    /\ pc' = "returned"
    /\ UNCHANGED <<raw, db, res, viewVars, uploadVars>>

\* the call runs to its return statement
Return ==
    /\ pc = "call"
    /\ ~derefThrows(raw)
    /\ m' = deriveMetrics(raw)
    /\ pc' = "returned"
    /\ UNCHANGED <<raw, db, res, viewVars, uploadVars>>

\* the first statement throws a TypeError: nothing is returned
Throw ==
    /\ pc = "call"
    /\ derefThrows(raw)
    /\ pc' = "threw"
    /\ UNCHANGED <<raw, m, db, res, viewVars, uploadVars>>

Next == Return \/ Throw

Spec == Init /\ [][Next]_vars

(***************************************************************************)
(* The server: analyses are saved, and the list is requested, in any       *)
(* order.                                                                  *)
(***************************************************************************)
InitResults ==
    /\ raw = EmptyObs
    /\ m = <<>>
    /\ pc = "server"
    /\ db = <<>>
    /\ res = NoResponse
    /\ ViewMounted
    /\ UploadIdle

\* analysis.save() of POST /api/analyze-field succeeds
SaveAnalysis ==
    /\ pc = "server"
    /\ Len(db) < MaxStored
    /\ db' = Append(db, AnalysisDoc(Len(db) + 1))
    /\ UNCHANGED <<raw, m, pc, res, viewVars, uploadVars>>

\* GET /api/results: the query resolves
GetResults ==
    /\ pc = "server"
    /\ res' = [status |-> 200, success |-> TRUE, data |-> findResults(db)]
    /\ UNCHANGED <<raw, m, pc, db, viewVars, uploadVars>>

\* GET /api/results: the query rejects
GetResultsFails ==
    /\ pc = "server"
    /\ res' = [status |-> 500, success |-> FALSE, data |-> <<>>]
    /\ UNCHANGED <<raw, m, pc, db, viewVars, uploadVars>>

NextResults == SaveAnalysis \/ GetResults \/ GetResultsFails

SpecResults == InitResults /\ [][NextResults]_vars

(***************************************************************************)
(* The FarmMapping view: the user draws, edits and deletes the polygon,    *)
(* types a farm name, saves and clears, while the fetches of the analyses  *)
(* and the farm-create request settle in any order.                        *)
(***************************************************************************)
InitView ==
    /\ raw = EmptyObs
    /\ m = <<>>
    /\ pc = "view"
    /\ db = <<>>
    /\ res = NoResponse
    /\ ViewMounted
    /\ UploadIdle

\* runAnalysis(gj) up to its first await: the two fetches are started
StartAnalysis(gj) ==
    /\ analyzing' = TRUE
    /\ metrics' = NoMetrics
    /\ calls' = Append(calls, NewCall(gj))

\* L.Draw.Event.CREATED: a new polygon replaces the previous one
Created ==
    /\ pc = "view"
    /\ Len(calls) < MaxCalls
    /\ LET gj == Len(calls) + 1
       IN  /\ polygonRef' = [layer |-> gj, color |-> DrawColor]
           /\ geojson' = gj
           /\ areaHa' = AreaOf(gj)
           /\ StartAnalysis(gj)
    /\ UNCHANGED <<raw, m, pc, db, res, form, status, saving, saveCall, uploadVars>>

\* L.Draw.Event.EDITED: the one layer of the group has a new geometry
Edited ==
    /\ pc = "view"
    /\ geojson # NoGeojson
    /\ Len(calls) < MaxCalls
    /\ LET gj == Len(calls) + 1
       IN  /\ geojson' = gj
           /\ areaHa' = AreaOf(gj)
           /\ polygonRef' = [polygonRef EXCEPT !.layer = gj]
           /\ StartAnalysis(gj)
    /\ UNCHANGED <<raw, m, pc, db, res, form, status, saving, saveCall, uploadVars>>

\* L.Draw.Event.DELETED
Deleted ==
    /\ pc = "view"
    /\ geojson # NoGeojson
    /\ geojson' = NoGeojson
    /\ areaHa' = NULL
    /\ metrics' = NoMetrics
    /\ polygonRef' = NoLayer
    /\ UNCHANGED <<raw, m, pc, db, res, form, status, saving, analyzing, calls, saveCall,
                   uploadVars>>

\* the Clear button, rendered when there is a polygon or a farm name
ClearClicked ==
    /\ pc = "view"
    /\ geojson # NoGeojson \/ form.farmName # <<>>
    /\ form' = EMPTY_FORM
    /\ status' = NoStatus
    /\ geojson' = NoGeojson
    /\ areaHa' = NULL
    /\ metrics' = NoMetrics
    /\ polygonRef' = NoLayer
    /\ UNCHANGED <<raw, m, pc, db, res, saving, analyzing, calls, saveCall, uploadVars>>

\* handleChange on the farmName input
HandleChange(name) ==
    /\ pc = "view"
    /\ form.farmName # name
    /\ form' = [form EXCEPT !.farmName = name]
    /\ UNCHANGED <<raw, m, pc, db, res, geojson, areaHa, status, saving, metrics, analyzing,
                   polygonRef, calls, saveCall, uploadVars>>

\* one of the two fetches of call i settles; once Promise.all has settled
\* nothing reads the outcome of a fetch that is still pending
WxSettles(i, outcome) ==
    /\ pc = "view"
    /\ i \in DOMAIN calls
    /\ calls[i].pc = "fetch"
    /\ calls[i].wx = "pending"
    /\ calls' = [calls EXCEPT ![i].wx = outcome]
    /\ UNCHANGED <<raw, m, pc, db, res, geojson, areaHa, form, status, saving, metrics,
                   analyzing, polygonRef, saveCall, uploadVars>>

GeoSettles(i, outcome) ==
    /\ pc = "view"
    /\ i \in DOMAIN calls
    /\ calls[i].pc = "fetch"
    /\ calls[i].geo = "pending"
    /\ calls' = [calls EXCEPT ![i].geo = outcome]
    /\ UNCHANGED <<raw, m, pc, db, res, geojson, areaHa, form, status, saving, metrics,
                   analyzing, polygonRef, saveCall, uploadVars>>

\* mutant: the call goes on as soon as one of the two fetches has resolved
AllResolved_AnyResolved(i) ==
    /\ pc = "view"
    /\ i \in DOMAIN calls
    /\ calls[i].pc = "fetch"
    /\ calls[i].wx = "resolved" \/ calls[i].geo = "resolved"
    /\ calls' = [calls EXCEPT ![i].pc = "json"]
    /\ UNCHANGED <<raw, m, pc, db, res, geojson, areaHa, form, status, saving, metrics,
                   analyzing, polygonRef, saveCall, uploadVars>>

\* Promise.all resolves: fetchFarmAnalysis goes on to read the two bodies
AllResolved(i) ==
    /\ pc = "view"
    /\ i \in DOMAIN calls
    /\ calls[i].pc = "fetch"
    /\ calls[i].wx = "resolved" /\ calls[i].geo = "resolved"
    /\ calls' = [calls EXCEPT ![i].pc = "json"]
    /\ UNCHANGED <<raw, m, pc, db, res, geojson, areaHa, form, status, saving, metrics,
                   analyzing, polygonRef, saveCall, uploadVars>>

\* catch (_) { setMetrics(null) } finally { setAnalyzing(false) } of call i
CatchAndFinally(i, derive) ==
    /\ metrics' = NoMetrics
    /\ analyzing' = FALSE
    /\ calls' = [calls EXCEPT ![i].pc = "done", ![i].derive = derive]
    /\ UNCHANGED <<raw, m, pc, db, res, geojson, areaHa, form, status, saving, polygonRef,
                   saveCall, uploadVars>>

\* Promise.all rejects as soon as one fetch does
FetchFailed(i) ==
    /\ pc = "view"
    /\ i \in DOMAIN calls
    /\ calls[i].pc = "fetch"
    /\ calls[i].wx = "rejected" \/ calls[i].geo = "rejected"
    /\ CatchAndFinally(i, "not called")

\* wxRes.json() or geoRes.json() rejects
JsonFails(i) ==
    /\ pc = "view"
    /\ i \in DOMAIN calls
    /\ calls[i].pc = "json"
    /\ CatchAndFinally(i, "not called")

\* both bodies are parsed and deriveMetrics throws on the weather body
DeriveThrows(i, wx) ==
    /\ pc = "view"
    /\ i \in DOMAIN calls
    /\ calls[i].pc = "json"
    /\ derefThrows(wx)
    /\ CatchAndFinally(i, "threw")

\* both bodies are parsed; deriveMetrics returns, the metrics are shown and
\* the current polygon layer takes the stress colour
MetricsDerived(i, wx) ==
    /\ pc = "view"
    /\ i \in DOMAIN calls
    /\ calls[i].pc = "json"
    /\ ~derefThrows(wx)
    /\ metrics' = MetricsFor(calls[i].gj, wx)
    /\ polygonRef' = IF polygonRef # NoLayer
                     THEN [polygonRef EXCEPT !.color = MetricsFor(calls[i].gj, wx).stressColor]
                     ELSE polygonRef
    /\ analyzing' = FALSE
    /\ calls' = [calls EXCEPT ![i].pc = "done", ![i].derive = "returned"]
    /\ UNCHANGED <<raw, m, pc, db, res, geojson, areaHa, form, status, saving, saveCall,
                   uploadVars>>

\* handleSave without a polygon; the submit button is disabled while saving
HandleSaveNoBoundary ==
    /\ pc = "view"
    /\ ~saving
    /\ geojson = NoGeojson
    /\ status' = BoundaryError
    /\ UNCHANGED <<raw, m, pc, db, res, geojson, areaHa, form, saving, metrics, analyzing,
                   polygonRef, calls, saveCall, uploadVars>>

\* handleSave with a polygon and a blank farm name
HandleSaveNoName ==
    /\ pc = "view"
    /\ ~saving
    /\ geojson # NoGeojson
    /\ Trim(form.farmName) = <<>>
    /\ status' = NameError
    /\ UNCHANGED <<raw, m, pc, db, res, geojson, areaHa, form, saving, metrics, analyzing,
                   polygonRef, calls, saveCall, uploadVars>>

\* mutant: the farm name is tested without trim()
HandleSaveSend_Untrimmed ==
    /\ pc = "view"
    /\ ~saving
    /\ geojson # NoGeojson
    /\ form.farmName # <<>>
    /\ saving' = TRUE
    /\ status' = NoStatus
    /\ saveCall' = [pc |-> "fetch", farmName |-> form.farmName, geometry |-> geojson,
                    area_ha |-> PayloadArea(areaHa)]
    /\ UNCHANGED <<raw, m, pc, db, res, geojson, areaHa, form, metrics, analyzing,
                   polygonRef, calls, uploadVars>>

\* handleSave up to its await: POST /api/farms/create is sent
HandleSaveSend ==
    /\ pc = "view"
    /\ ~saving
    /\ geojson # NoGeojson
    /\ Trim(form.farmName) # <<>>
    /\ saving' = TRUE
    /\ status' = NoStatus
    /\ saveCall' = [pc |-> "fetch", farmName |-> form.farmName, geometry |-> geojson,
                    area_ha |-> PayloadArea(areaHa)]
    /\ UNCHANGED <<raw, m, pc, db, res, geojson, areaHa, form, metrics, analyzing,
                   polygonRef, calls, uploadVars>>

\* the response is ok and its body parses
SaveSucceeds ==
    /\ pc = "view"
    /\ saveCall.pc = "fetch"
    /\ status' = SavedStatus
    /\ form' = EMPTY_FORM
    /\ geojson' = NoGeojson
    /\ areaHa' = NULL
    /\ polygonRef' = NoLayer
    /\ saving' = FALSE
    /\ saveCall' = NoSave
    /\ UNCHANGED <<raw, m, pc, db, res, metrics, analyzing, calls, uploadVars>>

\* the fetch rejects, the response is not ok or its body does not parse
SaveFails ==
    /\ pc = "view"
    /\ saveCall.pc = "fetch"
    /\ status' = ServerError
    /\ saving' = FALSE
    /\ saveCall' = NoSave
    /\ UNCHANGED <<raw, m, pc, db, res, geojson, areaHa, form, metrics, analyzing,
                   polygonRef, calls, uploadVars>>

NextView ==
    \/ Created
    \/ Edited
    \/ Deleted
    \/ ClearClicked
    \/ \E name \in FarmNames : HandleChange(name)
    \/ \E i \in 1..MaxCalls, outcome \in {"resolved", "rejected"} : WxSettles(i, outcome)
    \/ \E i \in 1..MaxCalls, outcome \in {"resolved", "rejected"} : GeoSettles(i, outcome)
    \/ \E i \in 1..MaxCalls : AllResolved(i)
    \/ \E i \in 1..MaxCalls : FetchFailed(i)
    \/ \E i \in 1..MaxCalls : JsonFails(i)
    \/ \E i \in 1..MaxCalls, wx \in WeatherBodies : DeriveThrows(i, wx)
    \/ \E i \in 1..MaxCalls, wx \in WeatherBodies : MetricsDerived(i, wx)
    \/ HandleSaveNoBoundary
    \/ HandleSaveNoName
    \/ HandleSaveSend
    \/ SaveSucceeds
    \/ SaveFails

SpecView == InitView /\ [][NextView]_vars

(***************************************************************************)
(* POST /api/analyze-field: requests arrive while the clock advances, and  *)
(* the AI service call and the save of each request settle in any order.   *)
(***************************************************************************)
InitUpload ==
    /\ raw = EmptyObs
    /\ m = <<>>
    /\ pc = "upload"
    /\ db = <<>>
    /\ res = NoResponse
    /\ ViewMounted
    /\ UploadIdle

\* Date.now() advances
Tick ==
    /\ pc = "upload"
    /\ now < MaxClock
    /\ now' = now + 1
    /\ UNCHANGED <<raw, m, db, res, pc, disk, posts, viewVars>>

\* a request without a file: the handler answers 400 at once
PostWithoutFile ==
    /\ pc = "upload"
    /\ Len(posts) < MaxPosts
    /\ posts' = Append(posts, NewPost(FALSE, NoPath))
    /\ UNCHANGED <<raw, m, db, res, pc, now, disk, viewVars>>

\* a request with a .tif file: multer stores it, the handler runs up to
\* await axios.post
PostWithFile ==
    /\ pc = "upload"
    /\ Len(posts) < MaxPosts
    /\ disk' = WriteFile(disk, UploadPath(now), Len(posts) + 1)
    /\ posts' = Append(posts, NewPost(TRUE, UploadPath(now)))
    /\ UNCHANGED <<raw, m, db, res, pc, now, viewVars>>

\* the AI service answers 2xx: the handler builds the record and awaits
\* analysis.save()
AiResponds(r) ==
    /\ pc = "upload"
    /\ r \in DOMAIN posts
    /\ posts[r].pc = "ai"
    /\ posts' = [posts EXCEPT ![r].pc = "save"]
    /\ UNCHANGED <<raw, m, db, res, pc, now, disk, viewVars>>

\* the request ends with an error response of the given status; the finally
\* block removes the upload
EndWithError(r, outcome, aiStatus, code) ==
    /\ posts' = [posts EXCEPT ![r].pc = "done", ![r].outcome = outcome,
                              ![r].aiStatus = aiStatus,
                              ![r].responses = Append(@, code)]
    /\ disk' = Unlink(disk, posts[r].path)
    /\ UNCHANGED <<raw, m, db, res, pc, now, viewVars>>

\* mutant: the early return of the AI error branch skips the clean-up
AiErrors_NoCleanup(r, s) ==
    /\ pc = "upload"
    /\ r \in DOMAIN posts
    /\ posts[r].pc = "ai"
    /\ posts' = [posts EXCEPT ![r].pc = "done", ![r].outcome = "ai error",
                              ![r].aiStatus = s, ![r].responses = Append(@, s)]
    /\ UNCHANGED <<raw, m, db, res, pc, now, disk, viewVars>>

\* the AI service answers with error status s (err.response is set)
AiErrors(r, s) ==
    /\ pc = "upload"
    /\ r \in DOMAIN posts
    /\ posts[r].pc = "ai"
    /\ EndWithError(r, "ai error", s, s)

\* the AI call fails without a response (timeout, connection refused,
\* unreadable upload)
AiUnreachable(r) ==
    /\ pc = "upload"
    /\ r \in DOMAIN posts
    /\ posts[r].pc = "ai"
    /\ EndWithError(r, "ai unreachable", 0, 500)

\* analysis.save() resolves: the record is stored, 200 is sent, the upload
\* is removed
SaveResolves(r) ==
    /\ pc = "upload"
    /\ r \in DOMAIN posts
    /\ posts[r].pc = "save"
    /\ db' = Append(db, AnalysisDoc(Len(db) + 1))
    /\ posts' = [posts EXCEPT ![r].pc = "done", ![r].outcome = "saved",
                              ![r].responses = Append(@, 200)]
    /\ disk' = Unlink(disk, posts[r].path)
    /\ UNCHANGED <<raw, m, res, pc, now, viewVars>>

\* mutant: the record is stored although the save is reported as failed
SaveRejects_RecordKept(r) ==
    /\ pc = "upload"
    /\ r \in DOMAIN posts
    /\ posts[r].pc = "save"
    /\ db' = Append(db, AnalysisDoc(Len(db) + 1))
    /\ posts' = [posts EXCEPT ![r].pc = "done", ![r].outcome = "save failed",
                              ![r].responses = Append(@, 500)]
    /\ disk' = Unlink(disk, posts[r].path)
    /\ UNCHANGED <<raw, m, res, pc, now, viewVars>>

\* analysis.save() rejects
SaveRejects(r) ==
    /\ pc = "upload"
    /\ r \in DOMAIN posts
    /\ posts[r].pc = "save"
    /\ EndWithError(r, "save failed", 0, 500)

NextUpload ==
    \/ Tick
    \/ PostWithoutFile
    \/ PostWithFile
    \/ \E r \in 1..MaxPosts : AiResponds(r)
    \/ \E r \in 1..MaxPosts, s \in AiErrorStatuses : AiErrors(r, s)
    \/ \E r \in 1..MaxPosts : AiUnreachable(r)
    \/ \E r \in 1..MaxPosts : SaveResolves(r)
    \/ \E r \in 1..MaxPosts : SaveRejects(r)

SpecUpload == InitUpload /\ [][NextUpload]_vars

(***************************************************************************)
(* Properties                                                              *)
(***************************************************************************)
\* what the claims read of the argument, after the defaults
obsTemp == tempOf(raw.current)

obsHumidity == humidityOf(raw.current)

obsVpd == vpdOf(raw.hourly)

obsSoilM == soilMOf(raw.hourly)

obsUvMax == uvMaxOf(raw.daily)

\* C1: for every observation the returned healthScore is an integer in
\* 0..100 and stressPercentage is exactly 100 - healthScore.
C1_HealthInRange ==
    pc = "returned" =>
        /\ IsInteger(m.health)
        /\ 0 <= m.health /\ m.health <= K(100)
        /\ m.stressPct + m.health = K(100)

\* a call whose accumulator left [0,100] on the low side and was clamped to 0
C1_Witness ==
    /\ pc = "returned"
    /\ healthAccumulator(obsTemp, obsHumidity, obsVpd, obsUvMax, obsSoilM) < 0
    /\ m.health = 0
    /\ m.stressPct = K(100)

\* a call whose accumulator exceeded 100 (the +5 bonus) and was clamped to 100
C1_WitnessHigh ==
    /\ pc = "returned"
    /\ healthAccumulator(obsTemp, obsHumidity, obsVpd, obsUvMax, obsSoilM) > K(100)
    /\ m.health = K(100)

\* the boundary observation of C2, given explicitly or through the defaults
C2_Observation ==
    /\ obsTemp = K(38) /\ obsHumidity = K(50) /\ obsVpd = K(1)
    /\ obsUvMax = K(5) /\ obsSoilM = Frac(25, 100)

\* C2 (as claimed): temperature=38, humidity=50, VPD=1.0, uvIndexMax=5 and
\* soilMoistureFraction=0.25 yield healthScore=100: exactly 38 is not penalised.
C2_Boundary38 == (pc = "returned" /\ C2_Observation) => m.health = K(100)

\* C2 (amended): that observation yields healthScore=88. Exactly 38 is
\* outside the above-38 rule (4 per degree) but inside the 32..38 rule, which
\* subtracts 2 * (38 - 32) = 12.
C2_Boundary38Is88 == (pc = "returned" /\ C2_Observation) => m.health = K(88)

\* the boundary observation with every one of the five values given explicitly
C2_Witness ==
    /\ pc = "returned"
    /\ raw.current.temperature_2m = K(38)
    /\ raw.current.relative_humidity_2m = K(50)
    /\ raw.hourly.vapour_pressure_deficit = K(1)
    /\ At(raw.daily.uv_index_max, 0) = K(5)
    /\ raw.hourly.soil_moisture_0_to_1cm = Frac(25, 100)
    /\ m.health = K(88)

\* C5: stressLevel is a function of healthScore alone, and every score in
\* 0..100 has exactly one level: HEALTHY iff >= 75, MODERATE iff in [50,75),
\* HIGH iff in [30,50), CRITICAL iff < 30.
LevelBand(level, h) ==
    \/ level = "HEALTHY" /\ h >= 75
    \/ level = "MODERATE" /\ 50 <= h /\ h < 75
    \/ level = "HIGH" /\ 30 <= h /\ h < 50
    \/ level = "CRITICAL" /\ h < 30

C5_StressLevelBands ==
    /\ pc = "returned" =>
          /\ m.stressLevel = stressLevelOf(m.health)
          /\ LevelBand(m.stressLevel, m.health \div Scale)
    /\ \A h \in 0..100 :
          /\ LevelBand(stressLevelOf(K(h)), h)
          /\ Cardinality({l \in {"HEALTHY", "MODERATE", "HIGH", "CRITICAL"} : LevelBand(l, h)}) = 1

\* a call that returned a score on the lower edge of a band
C5_Witness == pc = "returned" /\ m.health = K(50) /\ m.stressLevel = "MODERATE"

\* every input of the health score other than temperature triggers no rule
OthersNeutral ==
    /\ K(50) <= obsHumidity /\ obsHumidity <= K(90)
    /\ obsVpd <= K(2)
    /\ obsUvMax <= K(7)
    /\ Frac(1, 10) <= obsSoilM /\ obsSoilM <= Frac(3, 10)

\* C6: with all other inputs neutral, a temperature t above 38 subtracts
\* exactly 4 * (t - 38) from the base of 100 (then rounded and clamped);
\* temperature=45 yields healthScore=72 and stressLevel MODERATE.
C6_Above38 ==
    (pc = "returned" /\ OthersNeutral /\ obsTemp > K(38)) =>
        /\ m.health = MathMax(0, MathRound(K(100) - (4 * (obsTemp - K(38)))))
        /\ obsTemp = K(45) => (m.health = K(72) /\ m.stressLevel = "MODERATE")

\* the scenario of the claim: temperature 45, everything else neutral
C6_Witness ==
    /\ pc = "returned" /\ OthersNeutral /\ obsTemp = K(45)
    /\ m.health = K(72) /\ m.stressLevel = "MODERATE"

\* a fractional temperature above 38, where the rounding acts: 40.2 gives 91
C6_WitnessFraction ==
    /\ pc = "returned" /\ OthersNeutral /\ obsTemp = Frac(402, 10) /\ m.health = K(91)

DailyFields ==
    {"temperature_2m_max", "temperature_2m_min", "precipitation_sum",
     "et0_fao_evapotranspiration", "uv_index_max", "soil_moisture_0_to_10cm_mean"}

\* the observation is missing, or a daily forecast array it carries is not a
\* 7-element sequence
Malformed(r) ==
    \/ ~r.defined
    \/ \E f \in DailyFields : r.daily[f].isArray /\ Len(r.daily[f].items) # 7

\* C3: deriveMetrics fails, returning no assessment, when the observation is
\* missing or structurally malformed (a daily forecast that is not a
\* 7-element sequence), and in no other case.
C3_FailsIffMalformed == pc # "call" => (pc = "threw" <=> Malformed(raw))

\* the element the trend rules would read for day j if an absent (null)
\* forecast maximum took the default the code uses for an absent array
DefaultedTMax(j) == Coalesce(trendSource(raw.daily, obsTemp)[j], obsTemp)

\* C4: every absent input value, a null entry of a daily forecast array
\* included, is replaced by its default before any penalty rule is
\* evaluated: each day's trend score is the score of the defaulted value.
C4_NoNullInPenalty ==
    pc = "returned" =>
        \A j \in DOMAIN m.trend :
            m.trend[j].h = trendEntry(raw.daily, DefaultedTMax(j), j - 1, obsSoilM, obsUvMax).h

\* position of an advisory in the order N, P, K, from its leading text
AlertRank(msg) ==
    IF msg[1] = "Apply 30-60 kg/ha urea (N deficit: " THEN 1
    ELSE IF msg[1] = "Apply DAP/SSP (P deficit: " THEN 2
    ELSE IF msg[1] = "Apply MOP/SOP (K deficit: " THEN 3
    ELSE 0

\* the advisories of rank k in a list of alerts
AlertsOfRank(alerts, k) == {i \in DOMAIN alerts : AlertRank(alerts[i]) = k}

\* C7: the alerts are the single "adequate" message iff all three nutrient
\* scores are >= 60; otherwise exactly one advisory per score below 60, in
\* the order N, P, K, each naming the deficit 100 - score, and no "adequate"
\* message.
C7_NutrientAlerts ==
    pc = "returned" =>
        LET alerts == m.nutrientAlerts
            score == <<m.nScore, m.pScore, m.kScore>>
            allAdequate == \A k \in 1..3 : score[k] >= K(60)
        IN  /\ allAdequate <=> alerts = <<AdequateMsg>>
            /\ ~allAdequate =>
                  /\ \A i \in DOMAIN alerts : alerts[i] # AdequateMsg
                  /\ \A k \in 1..3 :
                        Cardinality(AlertsOfRank(alerts, k)) = (IF score[k] < K(60) THEN 1 ELSE 0)
                  /\ \A i \in DOMAIN alerts :
                        /\ AlertRank(alerts[i]) \in 1..3
                        /\ alerts[i][2] = K(100) - score[AlertRank(alerts[i])]
                  /\ \A i, j \in DOMAIN alerts :
                        i < j => AlertRank(alerts[i]) < AlertRank(alerts[j])

\* a call with two scores below 60 and one adequate: two advisories
C7_Witness ==
    /\ pc = "returned"
    /\ m.nScore < K(60) /\ m.pScore < K(60) /\ m.kScore >= K(60)
    /\ Len(m.nutrientAlerts) = 2

\* a call with a score of exactly 60, which raises no advisory
C7_WitnessEdge ==
    /\ pc = "returned" /\ m.nScore = K(60) /\ m.pScore >= K(60) /\ m.kScore >= K(60)
    /\ m.nutrientAlerts = <<AdequateMsg>>

RECURSIVE SumFirst(_, _)
\* the sum of the first n forecast precipitation values, an absent one as 0
SumFirst(a, n) == IF n = 0 THEN 0 ELSE SumFirst(a, n - 1) + ToNumber(At(a, n - 1))

\* max(0, et0Today * 7 - sum of the forecast precipitation), read off raw
obsDeficit ==
    LET a == raw.daily.precipitation_sum
        week == IF a.isArray THEN SumFirst(a, Len(a.items)) ELSE 0
        need == (7 * et0Of(raw.daily)) - week
    IN  IF need > 0 THEN need ELSE 0

\* C8: when urgency is URGENT the recommended amount is round(deficit + 15)
\* mm, and round(deficit + 8) mm when SOON; soilMoistureFraction=0.05 with a
\* deficit of 40 yields URGENT and 55 mm.
C8_IrrigationAmount ==
    pc = "returned" =>
        /\ m.irrigUrgency = "URGENT" =>
              m.irrigRec = <<"Apply ", MathRound(obsDeficit + K(15)),
                             " mm within 24h. Soil critically dry.">>
        /\ m.irrigUrgency = "SOON" =>
              m.irrigRec = <<"Schedule ", MathRound(obsDeficit + K(8)),
                             " mm irrigation within 3 days.">>
        /\ (obsSoilM = Frac(5, 100) /\ obsDeficit = K(40)) =>
              (m.irrigUrgency = "URGENT" /\ m.irrigRec[2] = K(55))

\* the scenario of the claim
C8_Witness ==
    /\ pc = "returned" /\ obsSoilM = Frac(5, 100) /\ obsDeficit = K(40)
    /\ m.irrigUrgency = "URGENT" /\ m.irrigRec[2] = K(55)

\* a SOON recommendation whose amount is rounded from a fractional deficit
C8_WitnessSoon ==
    /\ pc = "returned" /\ m.irrigUrgency = "SOON" /\ ~IsInteger(obsDeficit)

\* C9: whenever the day-0 forecast maximum exceeds 42, temperatureAlert.level
\* is CRITICAL, whatever the day-0 minimum and every other field are.
C9_SevereHeat ==
    (/\ pc = "returned"
     /\ At(raw.daily.temperature_2m_max, 0) # NULL
     /\ At(raw.daily.temperature_2m_max, 0) > K(42))
        => m.tempAlertLevel = "CRITICAL"

\* day-0 maximum 43 together with a near-frost day-0 minimum
C9_Witness ==
    /\ pc = "returned"
    /\ At(raw.daily.temperature_2m_max, 0) = K(43)
    /\ At(raw.daily.temperature_2m_min, 0) = K(3)
    /\ m.tempAlertLevel = "CRITICAL"

InScoreRange(x) == 0 <= x /\ x <= K(100)

\* C10: the three nutrient scores and the six soil subscores lie in [0,100]
\* for every observation.
C10_ScoresInRange ==
    pc = "returned" =>
        /\ InScoreRange(m.nScore) /\ InScoreRange(m.pScore) /\ InScoreRange(m.kScore)
        /\ InScoreRange(m.mScore) /\ InScoreRange(m.stScore)
        /\ InScoreRange(m.aerationScore) /\ InScoreRange(m.organicScore)
        /\ InScoreRange(m.microbialScore) /\ InScoreRange(m.structureScore)

\* a waterlogged soil, where the aeration formula 100 - 3 * (pct - 50) is
\* negative before its floor of 20 applies
C10_Witness ==
    /\ pc = "returned"
    /\ K(100) - (3 * (soilMoisturePctOf(obsSoilM) - K(50))) < 0
    /\ m.aerationScore = K(20)

\* C11: the returned trend always has exactly 7 entries, with day indices
\* 0..6 in increasing order and each entry's score in [0,100].
C11_TrendHasSevenDays ==
    pc = "returned" =>
        /\ Len(m.trend) = 7
        /\ \A j \in DOMAIN m.trend :
              /\ m.trend[j].day = j - 1
              /\ 0 <= m.trend[j].h /\ m.trend[j].h <= K(100)

\* the observation with its current temperature replaced by t
WithTemperature(t) == [raw EXCEPT !.current.temperature_2m = t]

\* the observation with its current humidity replaced by h
WithHumidity(h) == [raw EXCEPT !.current.relative_humidity_2m = h]

\* the other values two compared observations may carry in those fields
OtherTemperatures == {NULL, K(12), K(44)}

OtherHumidities == {NULL, K(35), K(88)}

\* C12 (as claimed): the value substituted for an absent field is a fixed
\* constant: an observation that omits a field and one that omits it too
\* and differs in another field (here the current temperature) get the same
\* substituted value.
C12_DefaultsFixed ==
    pc = "returned" =>
        \A t \in OtherTemperatures :
            LET r2 == WithTemperature(t)
                t2 == tempOf(r2.current)
            IN  /\ raw.hourly.soil_temperature_0cm = NULL => soilTOf(r2.hourly, t2) = m.soilT
                /\ At(raw.daily.temperature_2m_max, 0) = NULL => tMaxOf(r2.daily, t2) = m.tMax
                /\ At(raw.daily.temperature_2m_min, 0) = NULL => tMinOf(r2.daily, t2) = m.tMin
                /\ raw.current.relative_humidity_2m = NULL => humidityOf(r2.current) = m.humidity

\* C12 (amended): the values substituted for an absent temperature (25),
\* humidity (50), precipitation (0), soil moisture (0.25), VPD (1.0),
\* uvIndexMax (5) and ET0 (4) are fixed constants, the same whatever the
\* other fields hold; the values substituted for an absent soil temperature,
\* day-0 maximum and day-0 minimum are temperature - 2, temperature and
\* temperature - 8, and so follow the current temperature.
C12_DefaultsAmended ==
    pc = "returned" =>
        /\ \A h \in OtherHumidities :
              raw.current.temperature_2m = NULL =>
                  (tempOf(WithHumidity(h).current) = m.temp /\ m.temp = K(25))
        /\ \A t \in OtherTemperatures :
              LET r2 == WithTemperature(t)
                  t2 == tempOf(r2.current)
              IN  /\ raw.current.relative_humidity_2m = NULL =>
                        (humidityOf(r2.current) = m.humidity /\ m.humidity = K(50))
                  /\ raw.current.precipitation = NULL =>
                        (precipOf(r2.current) = m.precip /\ m.precip = 0)
                  /\ raw.hourly.soil_moisture_0_to_1cm = NULL =>
                        (soilMOf(r2.hourly) = obsSoilM /\ obsSoilM = Frac(25, 100))
                  /\ raw.hourly.vapour_pressure_deficit = NULL =>
                        (vpdOf(r2.hourly) = obsVpd /\ obsVpd = K(1))
                  /\ At(raw.daily.uv_index_max, 0) = NULL =>
                        (uvMaxOf(r2.daily) = m.uvMax /\ m.uvMax = K(5))
                  /\ At(raw.daily.et0_fao_evapotranspiration, 0) = NULL =>
                        (et0Of(r2.daily) = et0Of(raw.daily) /\ et0Of(raw.daily) = K(4))
                  /\ raw.hourly.soil_temperature_0cm = NULL =>
                        (soilTOf(r2.hourly, t2) = t2 - K(2) /\ m.soilT = m.temp - K(2))
                  /\ At(raw.daily.temperature_2m_max, 0) = NULL =>
                        (tMaxOf(r2.daily, t2) = t2 /\ m.tMax = m.temp)
                  /\ At(raw.daily.temperature_2m_min, 0) = NULL =>
                        (tMinOf(r2.daily, t2) = t2 - K(8) /\ m.tMin = m.temp - K(8))

\* a call that omits the soil temperature and the day-0 extremes and gives
\* a temperature of 44: they are taken as 42, 44 and 36
C12_Witness ==
    /\ pc = "returned"
    /\ raw.current.temperature_2m = K(44)
    /\ raw.hourly.soil_temperature_0cm = NULL
    /\ At(raw.daily.temperature_2m_max, 0) = NULL
    /\ At(raw.daily.temperature_2m_min, 0) = NULL
    /\ raw.current.relative_humidity_2m = NULL
    /\ m.soilT = K(42) /\ m.tMax = K(44) /\ m.tMin = K(36) /\ m.humidity = K(50)

\* the observation with its current humidity and VPD replaced
WithHumidityVpd(h, v) ==
    [raw EXCEPT !.current.relative_humidity_2m = h, !.hourly.vapour_pressure_deficit = v]

\* humidity / VPD pairs of the compared observation: both rules of the
\* health score triggered at their maximum, and neither triggered
OtherHumidityVpd == {<<K(25), Frac(375, 100)>>, <<K(60), K(1)>>}

\* C14: the 7-day trend does not depend on current humidity or VPD: an
\* observation that differs only in humidity and/or VPD has the same trend.
C14_TrendIgnoresHumidityVpd ==
    pc = "returned" =>
        \A hv \in OtherHumidityVpd : deriveMetrics(WithHumidityVpd(hv[1], hv[2])).trend = m.trend

\* a call whose humidity and VPD lower the health score while the day-0
\* trend score, which does not read them, stays at 100
C14_Witness ==
    /\ pc = "returned"
    /\ obsHumidity < K(30) /\ obsVpd > Frac(35, 10)
    /\ Len(m.trend) = 7
    /\ m.trend[1].h = K(100)
    /\ m.health < K(100)

\* creation times of the documents of a list
CreatedAts(docs) == {docs[i].createdAt : i \in DOMAIN docs}

\* C15: GET /api/results returns every analysis stored so far, whatever
\* their number, each without its rgbImage, ndviImage and overlayImage: a
\* successful response holds every document created up to its newest one.
C15_ReturnsAllStored ==
    res.status = 200 =>
        /\ \A n \in 1..Len(db) :
              (\E i \in DOMAIN res.data : res.data[i].createdAt >= n) =>
                  n \in CreatedAts(res.data)
        /\ \A i \in DOMAIN res.data :
              (DOMAIN res.data[i]) \cap {"rgbImage", "ndviImage", "overlayImage"} = {}

\* the sum of the four penalties of the observation
obsPenalties ==
    tempPenalty(obsTemp) + humidityPenalty(obsHumidity) + vpdPenalty(obsVpd)
        + uvPenalty(obsUvMax)

\* C16: healthScore is the clamp to [0,100] of round(100 - temperature,
\* humidity, VPD and UV penalties + soil-moisture term): one accumulator,
\* clamped once at the end, so the +5 bonus offsets up to 5 points of
\* penalty.
C16_SharedAccumulator ==
    pc = "returned" =>
        /\ m.health = Clamp(0, K(100),
                            MathRound((K(100) - obsPenalties) + soilMoistureTerm(obsSoilM)))
        /\ (obsSoilM > Frac(3, 10) /\ obsPenalties <= K(5)) => m.health = K(100)

\* a call with the bonus and a penalty of 1 (humidity 48): the score is 100
C16_Witness ==
    /\ pc = "returned"
    /\ obsSoilM > Frac(3, 10)
    /\ obsPenalties = K(1)
    /\ m.health = K(100)

\* C17: urgency is URGENT iff soilMoistureFraction < 0.10 or deficit > 30;
\* SOON iff not URGENT and (soilMoistureFraction < 0.20 or deficit > 15);
\* OK otherwise; exactly one urgency for every observation.
C17_UrgencyBands ==
    pc = "returned" =>
        LET urgent == obsSoilM < Frac(1, 10) \/ obsDeficit > K(30)
            soon == ~urgent /\ (obsSoilM < Frac(2, 10) \/ obsDeficit > K(15))
        IN  /\ m.irrigUrgency \in {"URGENT", "SOON", "OK"}
            /\ m.irrigUrgency = "URGENT" <=> urgent
            /\ m.irrigUrgency = "SOON" <=> soon
            /\ m.irrigUrgency = "OK" <=> (~urgent /\ ~soon)

\* soil moisture exactly 0.10 and a deficit of at most 15: SOON, not URGENT
C17_Witness ==
    /\ pc = "returned"
    /\ obsSoilM = Frac(1, 10) /\ obsDeficit <= K(15)
    /\ m.irrigUrgency = "SOON"

\* soil moisture exactly 0.20 and a deficit of at most 15: OK
C17_WitnessOk ==
    /\ pc = "returned"
    /\ obsSoilM = Frac(2, 10) /\ obsDeficit <= K(15)
    /\ m.irrigUrgency = "OK"

\* C18: the temperature alert is the first match of dayMax > 42 -> CRITICAL,
\* dayMax > 36 -> HIGH (heat), dayMin < 4 -> HIGH (frost), dayMin < 10 ->
\* MODERATE, else OK; with dayMax > 36 and dayMin < 4 the heat alert is
\* reported, never the frost alert.
C18_AlertChain ==
    pc = "returned" =>
        LET dayMax == m.tMax
            dayMin == m.tMin
            kind == m.tempAlert[1]
        IN  /\ dayMax > K(42) => (m.tempAlertLevel = "CRITICAL" /\ kind = "Severe heat (")
            /\ (dayMax <= K(42) /\ dayMax > K(36)) =>
                  (m.tempAlertLevel = "HIGH" /\ kind = "Heat stress (")
            /\ (dayMax <= K(36) /\ dayMin < K(4)) =>
                  (m.tempAlertLevel = "HIGH" /\ kind = "Near-frost risk (")
            /\ (dayMax <= K(36) /\ dayMin >= K(4) /\ dayMin < K(10)) =>
                  (m.tempAlertLevel = "MODERATE" /\ kind = "Cool nights (")
            /\ (dayMax <= K(36) /\ dayMin >= K(10)) =>
                  (m.tempAlertLevel = "OK" /\ kind = "Temperature range ")

\* day-0 maximum 37 with a day-0 minimum of 3: the heat alert is reported
C18_Witness ==
    /\ pc = "returned"
    /\ m.tMax = K(37) /\ m.tMin = K(3)
    /\ m.tempAlertLevel = "HIGH" /\ m.tempAlert[1] = "Heat stress ("

HealthyMsg == "Soil conditions are healthy and well-balanced"

\* the six soil subscores of the returned metrics
soilSubscores ==
    <<m.mScore, m.stScore, m.aerationScore, m.organicScore, m.microbialScore, m.structureScore>>

\* how many of the six subscores are below 60
lowSubscores == Cardinality({k \in 1..6 : soilSubscores[k] < K(60)})

\* how many warnings the issue list holds
soilWarnings == Cardinality({i \in DOMAIN m.soilIssues : m.soilIssues[i] # HealthyMsg})

C20_HealthyIffNoneLow ==
    pc = "returned" => (m.soilIssues = <<HealthyMsg>> <=> lowSubscores = 0)

\* a call with every subscore at 60 or more, organic matter exactly 60
C20_Witness ==
    /\ pc = "returned"
    /\ lowSubscores = 0
    /\ m.organicScore = K(60)
    /\ m.soilIssues = <<HealthyMsg>>

\* a call whose structure score is below 60: another subscore is too, and
\* the list holds warnings
C20_WitnessStructure ==
    /\ pc = "returned"
    /\ m.structureScore < K(60)
    /\ m.soilIssues # <<HealthyMsg>>

\* the conditions of the trend that a day maximum of t triggers
TrendTempCase(t) == <<t > K(38), t < K(18)>>

\* day maxima to compare a forecast day with
OtherDayMaxima == {K(t) : t \in {3, 10, 17, 25, 39, 41, 43, 45}}

\* C21: in the 7-day trend each triggered condition subtracts a fixed
\* amount, independent of how far the value lies beyond its threshold (a
\* day scores the same as it would with any other maximum that triggers the
\* same conditions), and each day's score is clamped to [0,100].
C21_TrendFixedPenalties ==
    pc = "returned" =>
        \A j \in DOMAIN m.trend :
            LET src == trendSource(raw.daily, tempOf(raw.current))
                other(t) == trendEntry(raw.daily, t, j - 1, soilMOf(raw.hourly),
                                       uvMaxOf(raw.daily)).h
            IN  /\ m.trend[j].h >= 0 /\ m.trend[j].h <= K(100)
                /\ src[j] # NULL =>
                      \A t \in OtherDayMaxima :
                          TrendTempCase(t) = TrendTempCase(src[j]) => other(t) = m.trend[j].h

\* what the claim reads of the soil scores
soilSubscoreSum ==
    m.mScore + m.stScore + m.aerationScore + m.organicScore + m.microbialScore
        + m.structureScore

\* C22: the soil-health composite equals the rounded unweighted mean of the
\* six subscores, lies in [0,100], and the status is EXCELLENT iff composite
\* >= 80, GOOD iff 60 <= composite < 80, FAIR iff 40 <= composite < 60, POOR
\* iff composite < 40.
C22_SoilComposite ==
    pc = "returned" =>
        /\ IsInteger(m.soilHealth)
        /\ (6 * m.soilHealth) - (3 * Scale) <= soilSubscoreSum
        /\ soilSubscoreSum < (6 * m.soilHealth) + (3 * Scale)
        /\ m.soilHealth >= 0 /\ m.soilHealth <= K(100)
        /\ m.soilStatus = "EXCELLENT" <=> m.soilHealth >= K(80)
        /\ m.soilStatus = "GOOD" <=> (m.soilHealth >= K(60) /\ m.soilHealth < K(80))
        /\ m.soilStatus = "FAIR" <=> (m.soilHealth >= K(40) /\ m.soilHealth < K(60))
        /\ m.soilStatus = "POOR" <=> m.soilHealth < K(40)

\* a composite of exactly 80 rounded from a mean that is not whole
C22_Witness ==
    /\ pc = "returned"
    /\ m.soilHealth = K(80) /\ soilSubscoreSum # 6 * K(80)
    /\ m.soilStatus = "EXCELLENT"

\* a composite of exactly 40: FAIR
C22_WitnessFair ==
    /\ pc = "returned" /\ m.soilHealth = K(40) /\ m.soilStatus = "FAIR"

\* the precipitation forecast summed over the week, read off raw
obsPrecipWeek ==
    LET a == raw.daily.precipitation_sum
    IN  IF a.isArray THEN SumFirst(a, Len(a.items)) ELSE 0

\* C29: whenever irrigation urgency is OK, the number of days until the next
\* irrigation announced in the recommendation, round(7 - weeklyPrecipitation
\* / 3), is between 0 and 7.
C29_NextIrrigationDays ==
    (pc = "returned" /\ m.irrigUrgency = "OK") =>
        /\ m.irrigRec[2] = MathRoundDiv(K(21) - obsPrecipWeek, 3)
        /\ m.irrigRec[2] >= 0 /\ m.irrigRec[2] <= K(7)

\* a runAnalysis call is in flight
InFlight == \E i \in DOMAIN calls : calls[i].pc # "done"

\* C23: in runAnalysis, deriveMetrics is called for a request only after
\* both the weather fetch and the geocoding fetch of that request have
\* resolved; if either fetch fails, deriveMetrics is not called for that
\* request, metrics is set to null and analyzing is reset to false.
C23_DeriveAfterFetches ==
    /\ [](\A i \in DOMAIN calls :
            /\ calls[i].derive # "not called" =>
                  (calls[i].wx = "resolved" /\ calls[i].geo = "resolved")
            /\ (calls[i].wx = "rejected" \/ calls[i].geo = "rejected") =>
                  calls[i].derive = "not called")
    /\ [][\A i \in DOMAIN calls :
            (/\ calls[i].wx = "rejected" \/ calls[i].geo = "rejected"
             /\ calls[i].pc # "done" /\ calls'[i].pc = "done") =>
                (metrics' = NoMetrics /\ analyzing' = FALSE)]_vars

\* a call whose geocoding fetch failed has ended without calling
\* deriveMetrics, with no metrics shown and analyzing reset
C23_Witness ==
    /\ pc = "view"
    /\ \E i \in DOMAIN calls :
          /\ calls[i].geo = "rejected" /\ calls[i].wx = "resolved"
          /\ calls[i].pc = "done" /\ calls[i].derive = "not called"
    /\ metrics = NoMetrics /\ ~analyzing

\* a call has derived and shown metrics after both fetches resolved
C23_WitnessDerived ==
    /\ pc = "view"
    /\ \E i \in DOMAIN calls :
          /\ calls[i].derive = "returned"
          /\ calls[i].wx = "resolved" /\ calls[i].geo = "resolved"
          /\ metrics.gj = calls[i].gj

\* C24: under any interleaving of polygon CREATED/EDITED events and fetch
\* completions, once no analysis is in flight the displayed metrics (if any)
\* are the ones derived for the most recently created or edited polygon,
\* never those of an earlier request that completed late.
C24_MetricsOfLatestPolygon ==
    (pc = "view" /\ ~InFlight /\ metrics # NoMetrics) => metrics.gj = Len(calls)

\* C25: in every reachable state of the view in which no polygon exists
\* (geojson is null) and no analysis is in flight, metrics is null.
C25_NoPolygonNoMetrics ==
    (pc = "view" /\ geojson = NoGeojson /\ ~InFlight) => metrics = NoMetrics

\* C26: the analyzing flag is true exactly while at least one runAnalysis
\* call is in flight, including when two analyses overlap.
C26_AnalyzingIffInFlight == pc = "view" => (analyzing <=> InFlight)

\* C30: handleSave sends the farm-create request only when a boundary
\* polygon exists and the trimmed farm name is non-empty; otherwise it sets
\* an error status and leaves form, geojson, area, metrics and saving
\* unchanged; after every save attempt, successful or failed, saving is
\* false again.
C30_HandleSave ==
    /\ [](/\ saveCall.pc = "fetch" =>
                (saveCall.geometry # NoGeojson /\ Trim(saveCall.farmName) # <<>>)
          /\ saving <=> saveCall.pc = "fetch")
    /\ [][/\ (saveCall.pc = "idle" /\ saveCall'.pc = "fetch") =>
                (geojson # NoGeojson /\ Trim(form.farmName) # <<>>)
          /\ (status' \in {BoundaryError, NameError} /\ status' # status) =>
                /\ geojson = NoGeojson \/ Trim(form.farmName) = <<>>
                /\ status' = BoundaryError <=> geojson = NoGeojson
                /\ UNCHANGED <<form, geojson, areaHa, metrics, saving, saveCall>>
          /\ (saveCall.pc = "fetch" /\ saveCall'.pc = "idle") => saving' = FALSE]_vars

\* a save was refused for a farm name made of blanks only
C30_Witness ==
    /\ pc = "view"
    /\ status = NameError
    /\ geojson # NoGeojson /\ form.farmName = <<Space>>
    /\ ~saving /\ saveCall = NoSave

\* a save attempt has failed and saving is false again
C30_WitnessFailed ==
    /\ pc = "view" /\ status = ServerError /\ ~saving /\ saveCall = NoSave

\* a farm-create request is in flight
C30_WitnessSent ==
    /\ pc = "view" /\ saving /\ saveCall.pc = "fetch"
    /\ saveCall.farmName = <<Space, "F", Space>>

\* the requests that have ended with the given outcome
PostsEnded(outcome) ==
    {r \in DOMAIN posts : posts[r].pc = "done" /\ posts[r].outcome = outcome}

\* C27: for every POST /api/analyze-field request that carried a file, the
\* uploaded temporary file no longer exists once the handler has finished,
\* whether the AI service call succeeded, the AI service returned an error,
\* or saving the result failed.
C27_UploadRemoved ==
    pc = "upload" =>
        \A r \in DOMAIN posts :
            (posts[r].hasFile /\ posts[r].pc = "done") =>
                /\ \A f \in disk : f.upload # r
                /\ \A f \in disk : f.path = posts[r].path => posts[f.upload].pc # "done"

\* three requests with a file have ended, one saved, one with an AI error
\* and one with a failed save, and the upload directory is empty
C27_Witness ==
    /\ pc = "upload"
    /\ PostsEnded("saved") # {} /\ PostsEnded("ai error") # {}
    /\ PostsEnded("save failed") # {}
    /\ disk = {}

\* C28: POST /api/analyze-field sends exactly one response per request, and
\* a success response only after the analysis record has been persisted:
\* without a file (400), when the AI service call fails (its status) or
\* the save fails (500), an error response is sent and no record is stored.
C28_OneResponse ==
    pc = "upload" =>
        /\ \A r \in DOMAIN posts :
              /\ Len(posts[r].responses) <= 1
              /\ posts[r].pc = "done" <=> Len(posts[r].responses) = 1
              /\ ~posts[r].hasFile => posts[r].responses = <<400>>
              /\ posts[r].outcome = "ai error" =>
                    /\ posts[r].responses = <<posts[r].aiStatus>>
                    /\ posts[r].aiStatus # 200
              /\ posts[r].outcome = "ai unreachable" => posts[r].responses = <<500>>
              /\ posts[r].outcome = "save failed" => posts[r].responses = <<500>>
              /\ posts[r].responses = <<200>> <=> posts[r].outcome = "saved"
        /\ Len(db) = Cardinality({r \in DOMAIN posts : posts[r].responses = <<200>>})

\* one request was saved and answered 200 while another one's save failed
\* and a third had no file: one record is stored
C28_Witness ==
    /\ pc = "upload"
    /\ PostsEnded("saved") # {} /\ PostsEnded("save failed") # {}
    /\ PostsEnded("no file") # {}
    /\ Len(db) = 1

\* a request ended with the status of the AI service and nothing stored
C28_WitnessAiError ==
    /\ pc = "upload"
    /\ \E r \in PostsEnded("ai error") : posts[r].responses = <<422>>
    /\ db = <<>>

=============================================================================
